---- MODULE Spec2Model ----
(***************************************************************************)
(* Silver layer of the PITZ data pipeline (src/src/silver/                 *)
(* transformations.py): transform_all and the stages it calls, with the    *)
(* two stores they write, the silver datasets and the rejected-records     *)
(* directory; and its gold layer (src/src/gold/postgres_loader.py):        *)
(* load_all, which copies the silver datasets into two database tables.    *)
(*                                                                         *)
(* A DataFrame is a sequence of records; the field `row` of a record is    *)
(* its index label, which filtering keeps and a merge renumbers.  A cell   *)
(* is NULL (NaN / None / NaT) or Some(v).  A string is a sequence of       *)
(* one-character strings, so that lower(), strip() and the e-mail pattern  *)
(* are computed character by character.  The columns a bronze file lacks  *)
(* are listed in bronze.absent; frame[col] on such a column raises         *)
(* KeyError, which nothing in transform_all catches.                       *)
(***************************************************************************)
EXTENDS Integers, Sequences, FiniteSets, TLC

VARIABLES
    bronze,         \* the bronze tables the run reads
    pc,             \* the step transform_all is at
    df,             \* the working frame of the current stage (df, orders)
    customers_df,   \* what transform_customers returned in this run
    orders_df,      \* what transform_orders returned in this run
    gateLog,        \* the quality gates applied so far in this run
    quarantine,     \* the files of data/rejected: path -> content
    silver,         \* the files of data/silver: customers and orders
    silverAtStart,  \* data/silver as the run found it
    report,         \* quality_report of this run
    clock,          \* the last second read from the wall clock
    run,            \* number of the run, from 0
    outcome,        \* how the run ended
    written,        \* the silver datasets this run has written, in order
    prevRun,        \* inputs and results of the run before this one
    gold            \* the gold loader: its database, its step and its statements

vars == <<bronze, pc, df, customers_df, orders_df, gateLog, quarantine,
          silver, silverAtStart, report, clock, run, outcome, written, prevRun,
          gold>>

----------------------------------------------------------------------------
(* Bounds of the model. *)

\* longest customers table of the customer-side input family
MaxCust == 3
\* longest transactions table of the order-side input family
MaxTx == 2
\* longest reviews_jan table of the order-side input family
MaxRev == 1
\* last second the wall clock reaches
MaxClock == 1
\* number of runs of transform_all after the first one
MaxReruns == 1
\* calls of load_all after the first
MaxLoads == 1

----------------------------------------------------------------------------
(* Cells and strings. *)

NULL == <<>>
Some(v) == <<v>>
IsNa(x) == x = NULL
NotNa(x) == x # NULL
Val(x) == x[1]

LowerLetters == {"a","b","c","d","e","f","g","h","i","j","k","l","m",
                 "n","o","p","q","r","s","t","u","v","w","x","y","z"}
UpperLetters == {"A","B","C","D","E","F","G","H","I","J","K","L","M",
                 "N","O","P","Q","R","S","T","U","V","W","X","Y","Z"}
Digits == {"0","1","2","3","4","5","6","7","8","9"}
Whitespace == {" ", "\t", "\n", "\r", "\f"}

ToLower == [c \in UpperLetters |->
              CASE c = "A" -> "a" [] c = "B" -> "b" [] c = "C" -> "c"
                [] c = "D" -> "d" [] c = "E" -> "e" [] c = "F" -> "f"
                [] c = "G" -> "g" [] c = "H" -> "h" [] c = "I" -> "i"
                [] c = "J" -> "j" [] c = "K" -> "k" [] c = "L" -> "l"
                [] c = "M" -> "m" [] c = "N" -> "n" [] c = "O" -> "o"
                [] c = "P" -> "p" [] c = "Q" -> "q" [] c = "R" -> "r"
                [] c = "S" -> "s" [] c = "T" -> "t" [] c = "U" -> "u"
                [] c = "V" -> "v" [] c = "W" -> "w" [] c = "X" -> "x"
                [] c = "Y" -> "y" [] c = "Z" -> "z"]

\* str.lower()
StrLower(s) == [i \in 1..Len(s) |-> IF s[i] \in UpperLetters THEN ToLower[s[i]] ELSE s[i]]

\* str.strip(): drops the leading and the trailing run of whitespace
StrStrip(s) ==
    LET keep == {i \in 1..Len(s) : s[i] \notin Whitespace}
    IN  IF keep = {} THEN <<>>
        ELSE LET lo == CHOOSE i \in keep : \A j \in keep : i <= j
                 hi == CHOOSE i \in keep : \A j \in keep : j <= i
             IN  SubSeq(s, lo, hi)

\* step 6: df['email'].astype(str).str.lower().str.strip()
NormalizeEmail(s) == StrStrip(StrLower(s))

LocalChars == LowerLetters \cup UpperLetters \cup Digits \cup {".", "_", "%", "+", "-"}
DomainChars == LowerLetters \cup UpperLetters \cup Digits \cup {".", "-"}
TldChars == LowerLetters \cup UpperLetters

AllIn(s, lo, hi, set) == \A k \in lo..hi : s[k] \in set

\* the whole of s is  [local]+ @ [domain]+ \. [alpha]{2,}
FullEmailMatch(s) ==
    \E at \in 1..Len(s) : \E dot \in 1..Len(s) :
        /\ s[at] = "@"
        /\ s[dot] = "."
        /\ at >= 2
        /\ dot >= at + 2
        /\ Len(s) >= dot + 2
        /\ AllIn(s, 1, at - 1, LocalChars)
        /\ AllIn(s, at + 1, dot - 1, DomainChars)
        /\ AllIn(s, dot + 1, Len(s), TldChars)

\* str.match(email_pattern): re.match, whose $ also matches before one
\* trailing newline
EmailMatches(s) ==
    \/ FullEmailMatch(s)
    \/ /\ Len(s) >= 1
       /\ s[Len(s)] = "\n"
       /\ FullEmailMatch(SubSeq(s, 1, Len(s) - 1))

----------------------------------------------------------------------------
(* DataFrame helpers. *)

\* the rows of s whose position is in I, in order
RowsAt(s, I) ==
    LET F[k \in 0..Len(s)] ==
            IF k = 0 THEN <<>>
            ELSE IF k \in I THEN Append(F[k - 1], s[k]) ELSE F[k - 1]
    IN  F[Len(s)]

\* df.duplicated(subset=[key], keep=False): every member of a group of two or more
DuplicatedAny(s, key) ==
    {i \in 1..Len(s) : \E j \in 1..Len(s) : j # i /\ s[j][key] = s[i][key]}

\* df.duplicated(subset=[key], keep='first'): every member but the first of its group
DuplicatedAfterFirst(s, key) ==
    {i \in 1..Len(s) : \E j \in 1..(i - 1) : s[j][key] = s[i][key]}

\* a mutation of DropDuplicatesFirst: keeps the last member of each group
DropDuplicatesLast(s, key) ==
    RowsAt(s, {i \in 1..Len(s) : ~ \E j \in (i + 1)..Len(s) : s[j][key] = s[i][key]})

\* df.drop_duplicates(subset=[key], keep='first')
DropDuplicatesFirst(s, key) ==
    RowsAt(s, (1..Len(s)) \ DuplicatedAfterFirst(s, key))

Rows(s) == {s[i].row : i \in 1..Len(s)}

----------------------------------------------------------------------------
(* The rejected-records directory. *)

\* REJECTED_DIR / f"{table_name}_rejected_{timestamp}.parquet"
RejectedPath(table_name, timestamp) == <<table_name, timestamp>>

\* save_rejected_records(df, table_name, reason): nothing for an empty frame;
\* otherwise the frame, with the two rejection columns, is written to the path
\* named after the table and the second the clock shows (now), which is also
\* the value of rejection_timestamp (read again in the same second).
\* to_parquet replaces a file of the same path.  The field run is the run that
\* wrote the file (bookkeeping, not file content).
save_rejected_records(store, d, table_name, reason, now) ==
    IF d = <<>> THEN store
    ELSE LET filepath == RejectedPath(table_name, now)
         IN  [f \in DOMAIN store \cup {filepath} |->
                IF f = filepath
                THEN [rejection_reason |-> reason, rejection_timestamp |-> now,
                      records |-> d, run |-> run]
                ELSE store[f]]

\* One quality gate of a stage: `rejected` is the frame the code selects for
\* rejection and `accepted` the frame it keeps when `rejected` is not empty
\* (the code leaves df alone otherwise).  gateLog records the gate's input,
\* what it kept and what it handed to save_rejected_records.
ApplyGate(table_name, reason, rejected, accepted, next) ==
    /\ gateLog' = Append(gateLog,
                         [table |-> table_name, reason |-> reason, input |-> df,
                          accepted |-> IF rejected = <<>> THEN df ELSE accepted,
                          rejected |-> rejected])
    /\ IF rejected = <<>>
       THEN /\ df' = df
            /\ UNCHANGED <<quarantine, clock>>
       ELSE /\ df' = accepted
            /\ \E now \in clock..MaxClock :
                  /\ quarantine' = save_rejected_records(quarantine, rejected,
                                                         table_name, reason, now)
                  /\ clock' = now
    /\ pc' = next

----------------------------------------------------------------------------
(* Columns and exceptions. *)

\* the bronze table has the column: read_parquet returns the columns of the
\* file, and bronze.absent lists the columns the files lack (the cells of
\* such a column are NULL in the rows of the model and stand for nothing)
HasColumn(table_name, col) == <<table_name, col>> \notin bronze.absent

\* an exception nothing catches (the KeyError of frame[col] on a frame
\* without the column) ends the stage and transform_all with it
Raise(exception) ==
    /\ pc' = "done"
    /\ outcome' = exception
    /\ UNCHANGED <<df, gateLog, quarantine, clock>>

----------------------------------------------------------------------------
(* transform_customers. *)

required_fields == {"customer_id", "email"}

\* a mutation of missing_fields: only customer_id is looked for
missing_fields_customer_id_only == {f \in {"customer_id"} : ~ HasColumn("customers", f)}

\* step 3: [f for f in required_fields if f not in df.columns]
missing_fields == {f \in required_fields : ~ HasColumn("customers", f)}

\* step 4: df[df['customer_id'].isna()] and df[df['customer_id'].notna()]
CustomerIdNullRejected(d) == RowsAt(d, {i \in 1..Len(d) : IsNa(d[i].customer_id)})
CustomerIdNullAccepted(d) == RowsAt(d, {i \in 1..Len(d) : NotNa(d[i].customer_id)})

\* step 5: df[df['email'].isna()] and df[df['email'].notna()]
EmailNullRejected(d) == RowsAt(d, {i \in 1..Len(d) : IsNa(d[i].email)})
EmailNullAccepted(d) == RowsAt(d, {i \in 1..Len(d) : NotNa(d[i].email)})

\* a mutation of NormalizeEmails: lower-cases without trimming
NormalizeEmailsNoStrip(d) ==
    [i \in 1..Len(d) |-> [d[i] EXCEPT !.email = Some(StrLower(Val(@)))]]

\* step 6 on the whole column (no cell is null after step 5)
NormalizeEmails(d) ==
    [i \in 1..Len(d) |-> [d[i] EXCEPT !.email = Some(NormalizeEmail(Val(@)))]]

\* step 7: df[~df['email'].str.match(email_pattern, na=False)] and its complement
EmailFormatRejected(d) == RowsAt(d, {i \in 1..Len(d) : ~ EmailMatches(Val(d[i].email))})
EmailFormatAccepted(d) == RowsAt(d, {i \in 1..Len(d) : EmailMatches(Val(d[i].email))})

\* a mutation of CustomerIdDuplicateRejected: looks for the first occurrence
\* in the table as loaded, records rejected by an earlier gate included
CustomerIdDuplicateRejectedOnLoaded(d) ==
    RowsAt(d, {i \in 1..Len(d) :
                 \E j \in 1..Len(bronze.customers) :
                     /\ bronze.customers[j].row < d[i].row
                     /\ bronze.customers[j].customer_id = d[i].customer_id})

\* step 8: duplicates[duplicates.duplicated(subset=['customer_id'], keep='first')]
CustomerIdDuplicateRejected(d) ==
    LET duplicates == RowsAt(d, DuplicatedAny(d, "customer_id"))
    IN  RowsAt(duplicates, DuplicatedAfterFirst(duplicates, "customer_id"))
\* a mutation of CustomerIdDuplicateAccepted: de-duplicates on the e-mail
CustomerIdDuplicateAcceptedByEmail(d) == DropDuplicatesFirst(d, "email")

\* step 8: df.drop_duplicates(subset=['customer_id'], keep='first')
CustomerIdDuplicateAccepted(d) == DropDuplicatesFirst(d, "customer_id")

\* the date strings of the model that carry a UTC offset
TzAwareDates == {"1990-05-01T00:00:00+00:00"}

\* the date strings of the model that pd.to_datetime reads
ParseableDates ==
    {"2024-01-15", "2024-02-03", "1990-05-01", "2030-01-01"} \cup TzAwareDates

\* pd.to_datetime(x, errors='coerce') on one date cell
CoerceDate(x) ==
    IF IsNa(x) THEN NULL
    ELSE IF Val(x) \in ParseableDates THEN x ELSE NULL

\* col in df.columns, for a column that only some sources carry
HasField(d, col) == d # <<>> /\ col \in DOMAIN d[1]

date_columns == {"registration_date", "birth_date"}

\* step 9: each date column the frame has goes through pd.to_datetime
ConvertDates(d) ==
    [i \in 1..Len(d) |->
        [f \in DOMAIN d[i] |->
            IF f \in date_columns THEN CoerceDate(d[i][f]) ELSE d[i][f]]]

\* step 10: df['birth_date'] > datetime.now() compares the column with a
\* datetime without time zone, which pandas refuses with TypeError for a
\* column of time-zone-aware timestamps
FutureBirthsRaises(d) ==
    /\ HasField(d, "birth_date")
    /\ \E i \in 1..Len(d) : NotNa(d[i].birth_date) /\ Val(d[i].birth_date) \in TzAwareDates

\* transform_all calls transform_customers; steps 1-3: the bronze table is
\* loaded; an empty frame (no file, unreadable, no records) is returned as it
\* is, an empty frame is returned when a required column is missing, and on
\* an empty frame transform_all stops.
LoadCustomers ==
    /\ pc = "start"
    /\ IF bronze.customers = <<>> \/ missing_fields # {}
       THEN /\ df' = <<>>
            /\ pc' = "done"
            /\ outcome' = "customers_empty"
       ELSE /\ df' = bronze.customers
            /\ pc' = "customer_id_null"
            /\ UNCHANGED outcome
    /\ UNCHANGED <<gold, bronze, customers_df, orders_df, gateLog, quarantine, silver,
                   silverAtStart, prevRun, report, clock, run, written>>

GateCustomerIdNull ==
    /\ pc = "customer_id_null"
    /\ ApplyGate("customers", "customer_id_null", CustomerIdNullRejected(df),
                 CustomerIdNullAccepted(df), "email_null")
    /\ UNCHANGED <<gold, bronze, customers_df, orders_df, silver, silverAtStart, prevRun,
                   report, run, outcome, written>>

GateEmailNull ==
    /\ pc = "email_null"
    /\ ApplyGate("customers", "email_null", EmailNullRejected(df),
                 EmailNullAccepted(df), "email_normalize")
    /\ UNCHANGED <<gold, bronze, customers_df, orders_df, silver, silverAtStart, prevRun,
                   report, run, outcome, written>>

\* step 6: the e-mail column is rewritten in place
NormalizeEmailColumn ==
    /\ pc = "email_normalize"
    /\ df' = NormalizeEmails(df)
    /\ pc' = "email_invalid_format"
    /\ UNCHANGED <<gold, bronze, customers_df, orders_df, gateLog, quarantine, silver,
                   silverAtStart, prevRun, report, clock, run, outcome, written>>

GateEmailFormat ==
    /\ pc = "email_invalid_format"
    /\ ApplyGate("customers", "email_invalid_format", EmailFormatRejected(df),
                 EmailFormatAccepted(df), "customer_id_duplicate")
    /\ UNCHANGED <<gold, bronze, customers_df, orders_df, silver, silverAtStart, prevRun,
                   report, run, outcome, written>>

\* a mutation of GateCustomerIdDuplicate: transform_all goes on to
\* transform_orders whatever transform_customers returned
GateCustomerIdDuplicateNoReturn ==
    /\ pc = "customer_id_duplicate"
    /\ ApplyGate("customers", "customer_id_duplicate", CustomerIdDuplicateRejected(df),
                 CustomerIdDuplicateAccepted(df), "load_orders")
    /\ customers_df' = df'
    /\ UNCHANGED <<gold, bronze, orders_df, silver, silverAtStart, prevRun, report, run,
                   outcome, written>>

\* step 8, then steps 9-12 (which change no customer_id and no email) and
\* the return to transform_all, which stops on an empty frame; the TypeError
\* of step 10 is caught nowhere
GateCustomerIdDuplicate ==
    /\ pc = "customer_id_duplicate"
    /\ ApplyGate("customers", "customer_id_duplicate", CustomerIdDuplicateRejected(df),
                 CustomerIdDuplicateAccepted(df),
                 IF df' = <<>> \/ FutureBirthsRaises(ConvertDates(df'))
                 THEN "done" ELSE "load_orders")
    /\ customers_df' = IF FutureBirthsRaises(ConvertDates(df'))
                       THEN customers_df ELSE ConvertDates(df')
    /\ outcome' = IF FutureBirthsRaises(ConvertDates(df')) THEN "TypeError"
                  ELSE IF df' = <<>> THEN "customers_empty" ELSE outcome
    /\ UNCHANGED <<gold, bronze, orders_df, silver, silverAtStart, prevRun, report, run, written>>

----------------------------------------------------------------------------
(* transform_orders. *)

\* sets the index labels of a frame to 1..n (ignore_index, and the fresh
\* index a merge returns)
Reindex(s) == [i \in 1..Len(s) |-> [s[i] EXCEPT !.row = i]]

\* the fields of the records of a frame
ColumnsOf(s) == IF s = <<>> THEN {} ELSE DOMAIN s[1]

\* pd.concat([reviews_jan, reviews_feb], ignore_index=True): the columns of
\* both tables, a column one table lacks being null in its records
ConcatReviews(jan, feb) ==
    LET both == jan \o feb
        columns == ColumnsOf(jan) \cup ColumnsOf(feb)
    IN  Reindex([i \in 1..Len(both) |->
                    [f \in columns |->
                        IF f \in DOMAIN both[i] THEN both[i][f] ELSE NULL]])

\* step 3: frame[frame['transaction_id'].notna()]
TransactionIdNotNull(s) == RowsAt(s, {i \in 1..Len(s) : NotNa(s[i].transaction_id)})

\* the record a merge makes of a left and a right record (no column but
\* the key is in both frames)
MergedRecord(l, r) ==
    [f \in DOMAIN l \cup DOMAIN r |->
        IF f = "row" THEN 0 ELSE IF f \in DOMAIN r THEN r[f] ELSE l[f]]

\* the record a left merge makes of a left record without a match
UnmatchedRecord(l, columns) ==
    [f \in DOMAIN l \cup columns |->
        IF f = "row" THEN 0 ELSE IF f \in DOMAIN l THEN l[f] ELSE NULL]

\* a mutation of MergeReviewsTransactions: a left join, which keeps the
\* reviews without a transaction
MergeReviewsTransactionsLeft(reviews, transactions) ==
    LET n == Len(reviews)
        m == Len(transactions)
        L(k) == reviews[((k - 1) \div (m + 1)) + 1]
        J(k) == (k - 1) % (m + 1)
        Matched(r) == \E j \in 1..m : transactions[j].transaction_id = r.transaction_id
        F[k \in 0..(n * (m + 1))] ==
            IF k = 0 THEN <<>>
            ELSE IF J(k) = 0
                 THEN IF Matched(L(k)) THEN F[k - 1]
                      ELSE Append(F[k - 1], UnmatchedRecord(L(k), ColumnsOf(transactions)))
                 ELSE IF transactions[J(k)].transaction_id = L(k).transaction_id
                      THEN Append(F[k - 1], MergedRecord(L(k), transactions[J(k)]))
                      ELSE F[k - 1]
    IN  Reindex(F[n * (m + 1)])

\* step 4: reviews.merge(transactions, on='transaction_id', how='inner'): one
\* row per pair of a review and a transaction of the same transaction_id, in
\* the order of the reviews and, for one review, of the transactions, with
\* the columns of both.
MergeReviewsTransactions(reviews, transactions) ==
    LET n == Len(reviews)
        m == Len(transactions)
        L(k) == reviews[((k - 1) \div m) + 1]
        R(k) == transactions[((k - 1) % m) + 1]
        F[k \in 0..(n * m)] ==
            IF k = 0 THEN <<>>
            ELSE IF L(k).transaction_id = R(k).transaction_id
                 THEN Append(F[k - 1], MergedRecord(L(k), R(k)))
                 ELSE F[k - 1]
    IN  Reindex(F[n * m])

\* step 5: orders[orders['customer_id'].isna()] and its complement
OrderCustomerIdNullRejected(d) == RowsAt(d, {i \in 1..Len(d) : IsNa(d[i].customer_id)})
OrderCustomerIdNullAccepted(d) == RowsAt(d, {i \in 1..Len(d) : NotNa(d[i].customer_id)})

\* customers_df[['customer_id', 'email']].rename(columns={'email': 'customer_email'})
customer_lookup(customers) ==
    [j \in 1..Len(customers) |->
        [row |-> customers[j].row, customer_id |-> customers[j].customer_id,
         customer_email |-> customers[j].email]]

\* a mutation of MergeCustomers: a left join, which keeps the orders
\* without a customer
MergeCustomersLeft(orders, customers) ==
    LET n == Len(orders)
        m == Len(customers)
        L(k) == orders[((k - 1) \div (m + 1)) + 1]
        J(k) == (k - 1) % (m + 1)
        Matched(o) == \E j \in 1..m : customers[j].customer_id = o.customer_id
        F[k \in 0..(n * (m + 1))] ==
            IF k = 0 THEN <<>>
            ELSE IF J(k) = 0
                 THEN IF Matched(L(k)) THEN F[k - 1]
                      ELSE Append(F[k - 1], UnmatchedRecord(L(k), {"customer_email"}))
                 ELSE IF customers[J(k)].customer_id = L(k).customer_id
                      THEN Append(F[k - 1],
                                  MergedRecord(L(k), customer_lookup(customers)[J(k)]))
                      ELSE F[k - 1]
    IN  Reindex(F[n * (m + 1)])

\* step 6: orders.merge(customer_lookup, on='customer_id', how='inner')
MergeCustomers(orders, customers) ==
    LET n == Len(orders)
        m == Len(customers)
        L(k) == orders[((k - 1) \div m) + 1]
        R(k) == customer_lookup(customers)[((k - 1) % m) + 1]
        F[k \in 0..(n * m)] ==
            IF k = 0 THEN <<>>
            ELSE IF L(k).customer_id = R(k).customer_id
                 THEN Append(F[k - 1], MergedRecord(L(k), R(k)))
                 ELSE F[k - 1]
    IN  Reindex(F[n * m])

DigitValue == [c \in Digits |->
                 CASE c = "0" -> 0 [] c = "1" -> 1 [] c = "2" -> 2 [] c = "3" -> 3
                   [] c = "4" -> 4 [] c = "5" -> 5 [] c = "6" -> 6 [] c = "7" -> 7
                   [] c = "8" -> 8 [] c = "9" -> 9]

\* the number a run of digits denotes
DigitsValue(s) ==
    LET F[k \in 0..Len(s)] == IF k = 0 THEN 0 ELSE F[k - 1] * 10 + DigitValue[s[k]]
    IN  F[Len(s)]

\* str.replace(ch, ''): s without the character ch
StrRemove(s, ch) == RowsAt(s, {i \in 1..Len(s) : s[i] # ch})

\* pd.to_numeric(s, errors='coerce') on a decimal numeral with an optional
\* sign and at most two decimals: NULL when s is no such numeral, else the
\* number, in hundredths
ToNumeric(s) ==
    LET signed == Len(s) >= 1 /\ s[1] \in {"-", "+"}
        body == IF signed THEN SubSeq(s, 2, Len(s)) ELSE s
        dots == {i \in 1..Len(body) : body[i] = "."}
        ip == IF dots = {} THEN body
              ELSE SubSeq(body, 1, (CHOOSE i \in dots : TRUE) - 1)
        fp == IF dots = {} THEN <<>>
              ELSE SubSeq(body, (CHOOSE i \in dots : TRUE) + 1, Len(body))
        wellFormed == /\ Cardinality(dots) <= 1
                      /\ \A i \in 1..Len(body) : body[i] \in Digits \cup {"."}
                      /\ Len(ip) + Len(fp) >= 1
                      /\ Len(fp) <= 2
        frac == IF Len(fp) = 0 THEN 0
                ELSE IF Len(fp) = 1 THEN DigitValue[fp[1]] * 10
                ELSE DigitsValue(fp)
        magnitude == DigitsValue(ip) * 100 + frac
    IN  IF ~ wellFormed THEN NULL
        ELSE Some(IF signed /\ s[1] = "-" THEN 0 - magnitude ELSE magnitude)

\* a mutation of CoerceAmount: to_numeric on the string as it is
CoerceAmountNoStrip(x) ==
    IF IsNa(x) THEN NULL ELSE ToNumeric(Val(x))

\* step 8 on one amount cell: '$' and ',' removed, then to_numeric
CoerceAmount(x) ==
    IF IsNa(x) THEN NULL ELSE ToNumeric(StrRemove(StrRemove(Val(x), "$"), ","))


\* step 7: the source columns kept, and the names they get
column_mapping ==
    [transaction_id |-> "order_id", customer_id |-> "customer_id",
     customer_email |-> "customer_email", amount |-> "amount",
     currency |-> "currency", payment_date |-> "order_date", status |-> "status",
     payment_method |-> "payment_method", rating |-> "rating",
     review_date |-> "review_date"]

\* a column that no source of the joined frame carries
ColumnAbsent(k) ==
    \/ <<"transactions", k>> \in bronze.absent
    \/ {<<"reviews_jan", k>>, <<"reviews_feb", k>>} \subseteq bronze.absent

\* {k: v for k, v in column_mapping.items() if k in orders.columns}
available_columns(d) ==
    {k \in DOMAIN column_mapping : k \in ColumnsOf(d) /\ ~ ColumnAbsent(k)}

\* step 8 on one cell of the renamed column c
CoerceColumn(c, x) ==
    CASE c \in {"order_date", "review_date"} -> CoerceDate(x)
      [] c = "amount" -> CoerceAmount(x)
      [] c = "rating" -> IF IsNa(x) THEN NULL ELSE ToNumeric(Val(x))
      [] OTHER -> x

\* steps 7 and 8: the available columns are selected and renamed
\* (transaction_id to order_id, payment_date to order_date), then the date
\* and number columns converted
ProjectAndCoerce(d) ==
    LET kept == available_columns(d)
        Source(c) == CHOOSE k \in kept : column_mapping[k] = c
    IN  [i \in 1..Len(d) |->
            [c \in {"row"} \cup {column_mapping[k] : k \in kept} |->
                IF c = "row" THEN d[i].row ELSE CoerceColumn(c, d[i][Source(c)])]]

AmountInvalid(r) == IsNa(r.amount) \/ Val(r.amount) <= 0

\* a mutation of AmountInvalidAccepted: keeps the amounts >= 0
AmountInvalidAcceptedNonNegative(d) ==
    RowsAt(d, {i \in 1..Len(d) : NotNa(d[i].amount) /\ Val(d[i].amount) >= 0})

\* step 9: orders[isna | <= 0] and orders[notna & > 0]
AmountInvalidRejected(d) == RowsAt(d, {i \in 1..Len(d) : AmountInvalid(d[i])})
AmountInvalidAccepted(d) ==
    RowsAt(d, {i \in 1..Len(d) : NotNa(d[i].amount) /\ Val(d[i].amount) > 0})

\* a mutation of OrderDateNullAccepted: filters on the amount column
OrderDateNullAcceptedOnAmount(d) == RowsAt(d, {i \in 1..Len(d) : NotNa(d[i].amount)})

\* step 10: orders[orders['order_date'].isna()] and its complement
OrderDateNullRejected(d) == RowsAt(d, {i \in 1..Len(d) : IsNa(d[i].order_date)})
OrderDateNullAccepted(d) == RowsAt(d, {i \in 1..Len(d) : NotNa(d[i].order_date)})

\* step 11: duplicates[duplicates.duplicated(subset=['order_id'], keep='first')]
OrderIdDuplicateRejected(d) ==
    LET duplicates == RowsAt(d, DuplicatedAny(d, "order_id"))
    IN  RowsAt(duplicates, DuplicatedAfterFirst(duplicates, "order_id"))
OrderIdDuplicateAccepted(d) == DropDuplicatesFirst(d, "order_id")

\* the concatenation of the two review tables has the columns of both
ReviewsHaveTransactionId ==
    HasColumn("reviews_jan", "transaction_id") \/ HasColumn("reviews_feb", "transaction_id")

\* steps 1-4: the three tables are loaded, the rows without transaction_id
\* dropped, reviews joined to transactions.  An empty review period, an empty
\* transactions table or an empty join returns an empty frame, on which
\* transform_all stops; step 3 raises KeyError on a frame without
\* transaction_id.
JoinedOrders ==
    MergeReviewsTransactions(
        TransactionIdNotNull(ConcatReviews(bronze.reviews_jan, bronze.reviews_feb)),
        TransactionIdNotNull(bronze.transactions))

\* a mutation of LoadOrders: the stage goes on with the reviews of one
\* period when the other is empty
LoadOrdersOnePeriod ==
    /\ pc = "load_orders"
    /\ IF \/ (bronze.reviews_jan = <<>> /\ bronze.reviews_feb = <<>>)
          \/ bronze.transactions = <<>>
       THEN /\ df' = <<>>
            /\ pc' = "done"
            /\ outcome' = "orders_empty"
       ELSE IF ~ ReviewsHaveTransactionId \/ ~ HasColumn("transactions", "transaction_id")
       THEN /\ df' = <<>>
            /\ pc' = "done"
            /\ outcome' = "KeyError"
       ELSE IF JoinedOrders = <<>>
       THEN /\ df' = <<>>
            /\ pc' = "done"
            /\ outcome' = "orders_empty"
       ELSE /\ df' = JoinedOrders
            /\ pc' = "order_customer_id_null"
            /\ UNCHANGED outcome
    /\ UNCHANGED <<gold, bronze, customers_df, orders_df, gateLog, quarantine, silver,
                   silverAtStart, prevRun, report, clock, run, written>>

LoadOrders ==
    /\ pc = "load_orders"
    /\ IF \/ bronze.reviews_jan = <<>>
          \/ bronze.reviews_feb = <<>>
          \/ bronze.transactions = <<>>
       THEN /\ df' = <<>>
            /\ pc' = "done"
            /\ outcome' = "orders_empty"
       ELSE IF ~ ReviewsHaveTransactionId \/ ~ HasColumn("transactions", "transaction_id")
       THEN /\ df' = <<>>
            /\ pc' = "done"
            /\ outcome' = "KeyError"
       ELSE IF JoinedOrders = <<>>
       THEN /\ df' = <<>>
            /\ pc' = "done"
            /\ outcome' = "orders_empty"
       ELSE /\ df' = JoinedOrders
            /\ pc' = "order_customer_id_null"
            /\ UNCHANGED outcome
    /\ UNCHANGED <<gold, bronze, customers_df, orders_df, gateLog, quarantine, silver,
                   silverAtStart, prevRun, report, clock, run, written>>

\* step 5; orders['customer_id'] raises KeyError when the joined frame has
\* no customer_id column
GateOrderCustomerIdNull ==
    /\ pc = "order_customer_id_null"
    /\ IF ~ HasColumn("transactions", "customer_id")
       THEN Raise("KeyError")
       ELSE /\ ApplyGate("orders", "customer_id_null", OrderCustomerIdNullRejected(df),
                      OrderCustomerIdNullAccepted(df), "join_customers")
            /\ UNCHANGED outcome
    /\ UNCHANGED <<gold, bronze, customers_df, orders_df, silver, silverAtStart, prevRun,
                   report, run, written>>

\* steps 6-8
JoinCustomers ==
    /\ pc = "join_customers"
    /\ df' = ProjectAndCoerce(MergeCustomers(df, customers_df))
    /\ pc' = "amount_invalid"
    /\ UNCHANGED <<gold, bronze, customers_df, orders_df, gateLog, quarantine, silver,
                   silverAtStart, prevRun, report, clock, run, outcome, written>>

\* step 9; orders['amount'] raises KeyError when there is no amount column
GateAmountInvalid ==
    /\ pc = "amount_invalid"
    /\ IF ~ HasColumn("transactions", "amount")
       THEN Raise("KeyError")
       ELSE /\ ApplyGate("orders", "amount_invalid", AmountInvalidRejected(df),
                      AmountInvalidAccepted(df), "order_date_null")
            /\ UNCHANGED outcome
    /\ UNCHANGED <<gold, bronze, customers_df, orders_df, silver, silverAtStart, prevRun,
                   report, run, written>>

\* step 10; orders['order_date'] raises KeyError when payment_date was not
\* there to be renamed
GateOrderDateNull ==
    /\ pc = "order_date_null"
    /\ IF ~ HasColumn("transactions", "payment_date")
       THEN Raise("KeyError")
       ELSE /\ ApplyGate("orders", "order_date_null", OrderDateNullRejected(df),
                      OrderDateNullAccepted(df), "order_id_duplicate")
            /\ UNCHANGED outcome
    /\ UNCHANGED <<gold, bronze, customers_df, orders_df, silver, silverAtStart, prevRun,
                   report, run, written>>

\* step 11, then steps 12-13 (logging only) and the return to transform_all,
\* which stops on an empty frame
GateOrderIdDuplicate ==
    /\ pc = "order_id_duplicate"
    /\ ApplyGate("orders", "order_id_duplicate", OrderIdDuplicateRejected(df),
                 OrderIdDuplicateAccepted(df),
                 IF df' = <<>> THEN "done" ELSE "validate")
    /\ orders_df' = df'
    /\ outcome' = IF df' = <<>> THEN "orders_empty" ELSE outcome
    /\ UNCHANGED <<gold, bronze, customers_df, silver, silverAtStart, prevRun, report, run, written>>

----------------------------------------------------------------------------
(* validate_data_quality, save_to_silver and the end of transform_all. *)

\* Series.nunique(): the number of distinct non-null values of a column
NUnique(d, col) == Cardinality({d[i][col] : i \in 1..Len(d)} \ {NULL})

\* frame.isnull().sum().to_dict(): the number of null cells of each column
\* (of a frame with records)
NullCheck(d) ==
    [c \in DOMAIN d[1] \ {"row"} |-> Cardinality({i \in 1..Len(d) : IsNa(d[i][c])})]

\* the metrics of validate_data_quality; now is the reading of the clock
\* stored under 'timestamp'
validate_data_quality(customers, orders, now) ==
    [timestamp |-> now,
     customers |-> [total_records |-> Len(customers),
                    unique_ids |-> NUnique(customers, "customer_id"),
                    unique_emails |-> NUnique(customers, "email"),
                    null_check |-> NullCheck(customers)],
     orders |-> [total_records |-> Len(orders),
                 unique_ids |-> NUnique(orders, "order_id"),
                 null_check |-> NullCheck(orders)],
     integrity |-> [customers_with_orders |-> NUnique(orders, "customer_email"),
                    customers_without_orders |->
                        Len(customers) - NUnique(orders, "customer_email"),
                    orphan_orders |-> 0]]

Validate ==
    /\ pc = "validate"
    /\ \E now \in clock..MaxClock :
          /\ report' = Some(validate_data_quality(customers_df, orders_df, now))
          /\ clock' = now
    /\ pc' = "save"
    /\ UNCHANGED <<gold, bronze, df, customers_df, orders_df, gateLog, quarantine, silver,
                   silverAtStart, prevRun, run, outcome, written>>

\* a mutation of save_to_silver: appends to the stored dataset
save_to_silver_append(store, d, table_name) ==
    IF d = <<>> THEN store
    ELSE [store EXCEPT ![table_name] = IF @ = NULL THEN Some(d) ELSE Some(Val(@) \o d)]

\* save_to_silver(df, table_name): nothing for an empty frame; otherwise
\* to_parquet replaces SILVER_DIR/<table_name>.parquet
save_to_silver(store, d, table_name) ==
    IF d = <<>> THEN store
    ELSE [store EXCEPT ![table_name] = Some(d)]

\* step 4 of transform_all: both datasets are saved, customers first
SaveSilver ==
    /\ pc = "save"
    /\ silver' = save_to_silver(save_to_silver(silver, customers_df, "customers"),
                                orders_df, "orders")
    /\ written' = written \o (IF customers_df = <<>> THEN <<>> ELSE <<"customers">>)
                        \o (IF orders_df = <<>> THEN <<>> ELSE <<"orders">>)
    /\ pc' = "done"
    /\ outcome' = "success"
    /\ UNCHANGED <<gold, bronze, df, customers_df, orders_df, gateLog, quarantine,
                   silverAtStart, prevRun, report, clock, run>>

----------------------------------------------------------------------------
(* The gold loader (src/src/gold/postgres_loader.py): load_all and the      *)
(* functions it calls.  The database is the record gold.db of its two       *)
(* tables; a table is the sequence of its rows in insertion order, so that  *)
(* a row inserted twice is there twice.  A row has no index label           *)
(* (to_parquet and to_sql are called with index=False).  gold.log lists the *)
(* statements the current call of load_all has executed.                    *)

\* the rows of a frame as to_parquet(index=False) stores them
Unindexed(d) ==
    [i \in 1..Len(d) |-> [f \in DOMAIN d[i] \ {"row"} |-> d[i][f]]]

NoTables == [customers |-> <<>>, orders |-> <<>>]

\* the loader before load_all is called, on an empty database
NoLoad ==
    [pc |-> "idle", db |-> NoTables, log |-> <<>>, loads |-> 0,
     connected |-> FALSE, verified |-> NULL, outcome |-> "idle", prev |-> NULL]

\* an unreadable or missing file is an empty frame
load_parquet(table_name) ==
    IF silver[table_name] = NULL THEN <<>> ELSE Unindexed(Val(silver[table_name]))

truncate_table_keeps_rows(db, table_name) == db

\* TRUNCATE TABLE ... CASCADE also empties the table that references it
truncate_table(db, table_name) ==
    IF table_name = "customers" THEN NoTables
    ELSE [db EXCEPT ![table_name] = <<>>]

\* the modelled frames have no address column
prepare_address_json(d) == d

validate_orders_before_load(d) ==
    IF d # <<>> /\ "order_date" \in DOMAIN d[1]
    THEN SelectSeq(d, LAMBDA r : NotNa(r.order_date))
    ELSE d

\* to_sql(..., if_exists='append')
load_customers(db, d) ==
    IF d = <<>> THEN db
    ELSE [db EXCEPT !.customers = @ \o prepare_address_json(d)]

load_orders(db, d) ==
    IF d = <<>> \/ validate_orders_before_load(d) = <<>> THEN db
    ELSE [db EXCEPT !.orders = @ \o validate_orders_before_load(d)]

\* no order without its customer
verify_integrity(db) ==
    \A i \in 1..Len(db.orders) :
        \E j \in 1..Len(db.customers) :
            /\ NotNa(db.orders[i].customer_id)
            /\ db.customers[j].customer_id = db.orders[i].customer_id

GoldUnchanged ==
    UNCHANGED <<bronze, pc, df, customers_df, orders_df, gateLog, quarantine,
                silver, silverAtStart, report, clock, run, outcome, written,
                prevRun>>

\* load_all is called: get_connection and get_engine
GetConnection ==
    /\ gold.pc \in {"idle", "done"}
    /\ gold.loads <= MaxLoads
    /\ \E conn \in BOOLEAN :
        gold' = [gold EXCEPT
                    !.pc = IF conn THEN "truncate_orders" ELSE "done",
                    !.log = <<>>,
                    !.loads = @ + 1,
                    !.connected = conn,
                    !.verified = NULL,
                    !.outcome = IF conn THEN "running" ELSE "no_connection",
                    !.prev = IF gold.pc = "idle" THEN NULL
                             ELSE Some([db |-> gold.db,
                                        connected |-> gold.connected,
                                        outcome |-> gold.outcome])]
    /\ GoldUnchanged

TruncateOrders ==
    /\ gold.pc = "truncate_orders"
    /\ gold' = [gold EXCEPT !.pc = "truncate_customers",
                            !.db = truncate_table(gold.db, "orders"),
                            !.log = Append(@, <<"TRUNCATE", "orders">>)]
    /\ GoldUnchanged

TruncateCustomers ==
    /\ gold.pc = "truncate_customers"
    /\ gold' = [gold EXCEPT !.pc = "load_customers",
                            !.db = truncate_table(gold.db, "customers"),
                            !.log = Append(@, <<"TRUNCATE", "customers">>)]
    /\ GoldUnchanged

\* step 2 of load_all
GoldLoadCustomers ==
    /\ gold.pc = "load_customers"
    /\ IF load_parquet("customers") = <<>>
       THEN gold' = [gold EXCEPT !.pc = "done", !.outcome = "customers_empty"]
       ELSE gold' = [gold EXCEPT
                        !.pc = "load_orders",
                        !.db = load_customers(gold.db, load_parquet("customers")),
                        !.log = Append(@, <<"INSERT", "customers">>)]
    /\ GoldUnchanged

\* step 3 of load_all
GoldLoadOrders ==
    /\ gold.pc = "load_orders"
    /\ IF load_parquet("orders") = <<>>
       THEN gold' = [gold EXCEPT !.pc = "done", !.outcome = "orders_empty"]
       ELSE gold' = [gold EXCEPT
                        !.pc = "verify_integrity",
                        !.db = load_orders(gold.db, load_parquet("orders")),
                        !.log = IF validate_orders_before_load(load_parquet("orders")) = <<>>
                                THEN @ ELSE Append(@, <<"INSERT", "orders">>)]
    /\ GoldUnchanged

\* step 4 of load_all
VerifyIntegrity ==
    /\ gold.pc = "verify_integrity"
    /\ gold' = [gold EXCEPT
                    !.pc = "done",
                    !.verified = Some(verify_integrity(gold.db)),
                    !.outcome = IF verify_integrity(gold.db)
                                THEN "loaded" ELSE "validation_failed"]
    /\ GoldUnchanged

----------------------------------------------------------------------------
(* The bronze inputs of the model. *)

Str_A_X_com == <<"A", "@", "X", ".", "c", "o", "m">>
Str_a_x_com == <<"a", "@", "x", ".", "c", "o", "m">>
Str_b_x_com == <<"b", "@", "x", ".", "c", "o", "m">>
Str_bad == <<"b", "a", "d">>
Str_padded == <<" ", "a", "@", "x", ".", "c", "o", "m", "\n">>

Str_10_50 == <<"$", "1", "0", ".", "5", "0">>
Str_1_000 == <<"1", ",", "0", "0", "0">>
Str_0 == <<"0">>
Str_abc == <<"a", "b", "c">>
Str_1_234_5 == <<"$", "1", ",", "2", "3", "4", ".", "5">>
Str_minus_5 == <<"-", "5">>
Str_10_5_0 == <<"1", "0", ".", "5", ".", "0">>
Str_dollar == <<"$">>
Str_euro_10 == <<"E", "U", "R", "1", "0">>

Customer(i, id, email) == [row |-> i, customer_id |-> id, email |-> email]

\* the customers of the customer side, as <<customer_id, email>>: valid
\* ones (two of the same customer_id), and ones with one or two defects
CustomerCells ==
    {<<Some(1), Some(Str_A_X_com)>>,
     <<Some(1), Some(Str_b_x_com)>>,
     <<Some(2), Some(Str_padded)>>,
     <<Some(2), Some(Str_bad)>>,
     <<Some(1), Some(Str_bad)>>,
     <<Some(2), NULL>>,
     <<NULL, Some(Str_A_X_com)>>,
     <<NULL, Some(Str_bad)>>,
     <<NULL, NULL>>}

\* every customers table of at most n records over the cells above
CustomerTables(n) ==
    UNION {{[i \in 1..k |-> Customer(i, c[i][1], c[i][2])] :
               c \in [1..k -> CustomerCells]} : k \in 0..n}

Review(i, tid) == [row |-> i, transaction_id |-> tid]
Transaction(i, tid, cid, amount, date) ==
    [row |-> i, transaction_id |-> tid, customer_id |-> cid, amount |-> amount,
     payment_date |-> date]

\* every reviews table of at most n records over the given transaction ids
ReviewTables(n, tids) ==
    UNION {{[i \in 1..k |-> Review(i, c[i])] : c \in [1..k -> tids]} : k \in 0..n}

\* the transactions of the order side, as <<transaction_id, customer_id,
\* amount, payment_date>>: two valid ones, and ones with one or two defects
TransactionCells ==
    {<<Some("T1"), Some(1), Some(Str_10_50), Some("2024-01-15")>>,
     <<Some("T2"), Some(1), Some(Str_1_000), Some("2024-02-03")>>,
     <<NULL, Some(1), Some(Str_10_50), Some("2024-01-15")>>,
     <<Some("T1"), NULL, Some(Str_10_50), Some("2024-01-15")>>,
     <<Some("T1"), Some(2), Some(Str_10_50), Some("2024-01-15")>>,
     <<Some("T1"), Some(1), Some(Str_0), Some("2024-01-15")>>,
     <<Some("T1"), Some(1), Some(Str_abc), Some("2024-01-15")>>,
     <<Some("T1"), Some(1), Some(Str_1_000), NULL>>,
     <<Some("T1"), Some(1), Some(Str_1_000), Some("n/a")>>,
     <<Some("T2"), Some(1), Some(Str_0), NULL>>}

\* every transactions table of at most n records over the cells above
TransactionTables(n) ==
    UNION {{[i \in 1..k |-> Transaction(i, c[i][1], c[i][2], c[i][3], c[i][4])] :
               c \in [1..k -> TransactionCells]} : k \in 0..n}

\* the bronze tables with every column present
Bronze(c, rj, rf, tx) ==
    [customers |-> c, reviews_jan |-> rj, reviews_feb |-> rf, transactions |-> tx,
     absent |-> {}]

\* the tables of b without the columns cols, a set of <<table, column>>
WithoutColumns(b, cols) ==
    LET Strip(tn) ==
            [i \in 1..Len(b[tn]) |->
                [f \in DOMAIN b[tn][i] |->
                    IF <<tn, f>> \in cols THEN NULL ELSE b[tn][i][f]]]
    IN  [customers |-> Strip("customers"), reviews_jan |-> Strip("reviews_jan"),
         reviews_feb |-> Strip("reviews_feb"), transactions |-> Strip("transactions"),
         absent |-> cols]

\* the sets of missing columns of the schema side: none, each required
\* column of each source, both required columns of customers, and the
\* transaction_id of both review periods
AbsentColumns ==
    {{},
     {<<"customers", "customer_id">>},
     {<<"customers", "email">>},
     {<<"customers", "customer_id">>, <<"customers", "email">>},
     {<<"reviews_jan", "transaction_id">>},
     {<<"reviews_jan", "transaction_id">>, <<"reviews_feb", "transaction_id">>},
     {<<"transactions", "transaction_id">>},
     {<<"transactions", "customer_id">>},
     {<<"transactions", "amount">>},
     {<<"transactions", "payment_date">>}}

\* schema side: tables with rejections at several gates, with and without
\* their required columns
SchemaInputs ==
    {WithoutColumns(
        Bronze(<<Customer(1, Some(1), Some(Str_A_X_com)),
                 Customer(2, NULL, Some(Str_bad)),
                 Customer(3, Some(2), Some(Str_b_x_com))>>,
               <<Review(1, Some("T1"))>>,
               <<Review(1, Some("T2"))>>,
               tx),
        cols) :
        tx \in {<<Transaction(1, Some("T1"), Some(1), Some(Str_10_50), Some("2024-01-15")),
                  Transaction(2, Some("T2"), NULL, Some(Str_0), NULL)>>,
                <<Transaction(1, Some("T1"), Some(1), Some(Str_0), Some("2024-01-15")),
                  Transaction(2, Some("T2"), Some(2), Some(Str_1_000), NULL)>>,
                <<Transaction(1, Some("T1"), Some(1), Some(Str_10_50), Some("2024-01-15")),
                  Transaction(2, Some("T2"), Some(2), Some(Str_1_000), Some("2024-02-03"))>>},
        cols \in AbsentColumns}

\* join side: a review of T9 without a transaction, a transaction T3 without
\* a review, an order T2 of a rejected customer, next to an order T1 that
\* goes through
JoinMissInputs ==
    {Bronze(<<Customer(1, Some(1), Some(Str_A_X_com)),
              Customer(2, Some(2), Some(Str_bad))>>,
            <<Review(1, Some("T1")), Review(2, Some("T9"))>>,
            <<Review(1, Some("T2"))>>,
            <<Transaction(1, Some("T1"), Some(1), Some(Str_10_50), Some("2024-01-15")),
              Transaction(2, Some("T2"), Some(2), Some(Str_1_000), Some("2024-02-03")),
              Transaction(3, Some("T3"), Some(1), Some(Str_1_000), Some("2024-02-03"))>>)}

\* the amounts of the amount side: with currency sign and thousands
\* separator, plain, negative, zero, and not a number
AmountStrings ==
    {Str_10_50, Str_1_000, Str_1_234_5, Str_minus_5, Str_0, Str_abc, Str_10_5_0,
     Str_dollar, Str_euro_10}

\* amount side: one customer, one review of T1 and one of T2, and a
\* transaction T1 with each of the amounts, alone or after a transaction T3
AmountInputs ==
    {Bronze(<<Customer(1, Some(1), Some(Str_A_X_com))>>,
            <<Review(1, Some("T1"))>>,
            <<Review(1, Some("T2"))>>,
            tx) :
        tx \in UNION {{<<Transaction(1, Some("T1"), Some(1), Some(a), Some("2024-01-15"))>>,
                       <<Transaction(1, Some("T3"), Some(1), Some(Str_1_000), Some("2024-02-03")),
                         Transaction(2, Some("T1"), Some(1), Some(a), Some("2024-01-15"))>>} :
                          a \in AmountStrings}}

\* customer side: every customers table, with one fixed set of order sources
CustomerSideInputs ==
    {Bronze(c,
            <<Review(1, Some("T1"))>>,
            <<Review(1, Some("T2"))>>,
            <<Transaction(1, Some("T1"), Some(1), Some(Str_10_50), Some("2024-01-15")),
              Transaction(2, Some("T2"), Some(2), Some(Str_1_000), Some("2024-02-03"))>>) :
        c \in CustomerTables(MaxCust)}

\* order side: every combination of order sources, with one customers table
\* (customer 1 is accepted once, customer 2 rejected)
OrderSideInputs ==
    {Bronze(<<Customer(1, Some(1), Some(Str_A_X_com)),
              Customer(2, Some(2), Some(Str_bad)),
              Customer(3, Some(1), Some(Str_b_x_com))>>, rj, rf, tx) :
        rj \in ReviewTables(MaxRev, {Some("T1"), Some("T2")}),
        rf \in {<<>>, <<Review(1, Some("T1"))>>, <<Review(1, NULL)>>},
        tx \in TransactionTables(MaxTx)}

\* the inputs of the runs of the several-runs specification: customers
\* tables without and with rejections, a missing and a present second review
\* period, transactions of an accepted or a rejected customer or with defects
RunInputs ==
    {Bronze(c, <<Review(1, Some("T1"))>>, rf, tx) :
        c \in {<<Customer(1, Some(1), Some(Str_A_X_com))>>,
               <<Customer(1, NULL, Some(Str_a_x_com)),
                 Customer(2, Some(2), NULL),
                 Customer(3, Some(1), Some(Str_b_x_com))>>,
               <<Customer(1, Some(1), Some(Str_bad)),
                 Customer(2, Some(2), Some(Str_b_x_com))>>},
        rf \in {<<>>, <<Review(1, Some("T1"))>>},
        tx \in {<<Transaction(1, Some("T1"), Some(1), Some(Str_10_50), Some("2024-01-15"))>>,
                <<Transaction(1, Some("T1"), Some(2), Some(Str_1_000), Some("2024-02-03"))>>,
                <<Transaction(1, Some("T1"), Some(1), Some(Str_0), Some("2024-01-15")),
                  Transaction(2, Some("T1"), Some(1), Some(Str_10_50), NULL)>>}}

\* a customers record of a source that carries the two date columns
DatedCustomer(i, id, email, registration_date, birth_date) ==
    [row |-> i, customer_id |-> id, email |-> email,
     registration_date |-> registration_date, birth_date |-> birth_date]

\* the date cells of one customer, as <<registration_date, birth_date>>:
\* missing, readable, unreadable, in the future
DateCells ==
    {<<NULL, NULL>>,
     <<Some("2024-01-15"), Some("1990-05-01")>>,
     <<Some("soon"), Some("1990-05-01")>>,
     <<Some("2024-01-15"), Some("unknown")>>,
     <<NULL, Some("2030-01-01")>>}

\* customers tables with date columns: one valid customer; a table with a
\* record for each customer gate to reject; and tables whose birth dates
\* carry a UTC offset
DatedCustomerTables ==
    {<<DatedCustomer(1, Some(1), Some(Str_A_X_com), c[1], c[2])>> : c \in DateCells}
    \cup
    {<<DatedCustomer(1, Some(1), Some(Str_a_x_com), c[1], c[2]),
       DatedCustomer(2, NULL, Some(Str_b_x_com), e[1], e[2]),
       DatedCustomer(3, Some(1), Some(Str_b_x_com), NULL, NULL),
       DatedCustomer(4, Some(2), Some(Str_bad), e[1], e[2])>> :
        c \in DateCells,
        e \in {<<NULL, NULL>>, <<Some("soon"), Some("unknown")>>}}
    \cup
    {<<DatedCustomer(1, Some(1), Some(Str_A_X_com), Some("2024-01-15"),
                     Some("1990-05-01T00:00:00+00:00"))>>,
      <<DatedCustomer(1, Some(1), Some(Str_a_x_com), Some("1990-05-01T00:00:00+00:00"),
                      NULL),
        DatedCustomer(2, NULL, Some(Str_b_x_com), NULL,
                      Some("1990-05-01T00:00:00+00:00"))>>}

\* runs on customers with date columns, and one order to accept
DateInputs ==
    {Bronze(c, <<Review(1, Some("T1"))>>, <<Review(1, Some("T1"))>>,
            <<Transaction(1, Some("T1"), Some(1), Some(Str_10_50), Some("2024-01-15"))>>) :
        c \in DatedCustomerTables}

\* a record with further columns: With(r, [currency |-> Some("EUR")])
With(r, more) ==
    [f \in DOMAIN r \cup DOMAIN more |-> IF f \in DOMAIN more THEN more[f] ELSE r[f]]

Str_5 == <<"5">>

\* the review tables of the projection side, as <<reviews_jan, reviews_feb>>:
\* no optional column, rating and review_date in both periods, and rating
\* in the first period only
OptionalReviewTables ==
    {<<<<Review(1, Some("T1"))>>, <<Review(1, Some("T2"))>>>>,
     <<<<With(Review(1, Some("T1")),
              [rating |-> Some(Str_5), review_date |-> Some("2024-02-03")])>>,
       <<With(Review(1, Some("T2")),
              [rating |-> Some(Str_abc), review_date |-> Some("soon")])>>>>,
     <<<<With(Review(1, Some("T1")), [rating |-> Some(Str_5)])>>,
       <<Review(1, Some("T2"))>>>>}

\* the transactions tables of the projection side: no optional column,
\* currency only, and currency, status and payment_method
OptionalTransactionTables ==
    LET t1 == Transaction(1, Some("T1"), Some(1), Some(Str_10_50), Some("2024-01-15"))
        t2 == Transaction(2, Some("T2"), Some(2), Some(Str_1_000), NULL)
    IN  {<<t1, t2>>,
         <<With(t1, [currency |-> Some("EUR")]), With(t2, [currency |-> NULL])>>,
         <<With(t1, [currency |-> Some("EUR"), status |-> Some("paid"),
                     payment_method |-> Some("card")]),
           With(t2, [currency |-> Some("USD"), status |-> NULL,
                     payment_method |-> Some("card")])>>}

\* projection side: sources with and without the optional columns of
\* column_mapping, and with and without amount and payment_date
ProjectionInputs ==
    {WithoutColumns(
        Bronze(<<Customer(1, Some(1), Some(Str_A_X_com)),
                 Customer(2, Some(2), Some(Str_b_x_com))>>,
               rv[1], rv[2], tx),
        cols) :
        rv \in OptionalReviewTables,
        tx \in OptionalTransactionTables,
        cols \in {{}, {<<"transactions", "amount">>},
                  {<<"transactions", "payment_date">>}}}

----------------------------------------------------------------------------
(* The specifications. *)

NoFiles == [customers |-> NULL, orders |-> NULL]

InitWith(inputs) ==
    /\ bronze \in inputs
    /\ pc = "start"
    /\ df = <<>>
    /\ customers_df = <<>>
    /\ orders_df = <<>>
    /\ gateLog = <<>>
    /\ quarantine = <<>>
    /\ silver = NoFiles
    /\ silverAtStart = NoFiles
    /\ report = NULL
    /\ clock = 0
    /\ run = 0
    /\ outcome = "running"
    /\ written = <<>>
    /\ prevRun = NULL
    /\ gold = NoLoad

\* transform_all is called again, on bronze tables that may have changed
NewRun ==
    /\ pc = "done"
    /\ run < MaxReruns
    /\ bronze' \in RunInputs
    /\ pc' = "start"
    /\ df' = <<>>
    /\ customers_df' = <<>>
    /\ orders_df' = <<>>
    /\ gateLog' = <<>>
    /\ silverAtStart' = silver
    /\ report' = NULL
    /\ run' = run + 1
    /\ outcome' = "running"
    /\ written' = <<>>
    /\ prevRun' = Some([bronze |-> bronze, customers_df |-> customers_df,
                        orders_df |-> orders_df, outcome |-> outcome,
                        report |-> report, gateLog |-> gateLog])
    /\ UNCHANGED <<quarantine, silver, clock, gold>>

Init ==
    \/ InitWith(CustomerSideInputs)
    \/ InitWith(OrderSideInputs)
    \/ InitWith(SchemaInputs)
    \/ InitWith(JoinMissInputs)
    \/ InitWith(AmountInputs)
    \/ InitWith(ProjectionInputs)

Next ==
    \/ LoadCustomers
    \/ GateCustomerIdNull
    \/ GateEmailNull
    \/ NormalizeEmailColumn
    \/ GateEmailFormat
    \/ GateCustomerIdDuplicate
    \/ LoadOrders
    \/ GateOrderCustomerIdNull
    \/ JoinCustomers
    \/ GateAmountInvalid
    \/ GateOrderDateNull
    \/ GateOrderIdDuplicate
    \/ Validate
    \/ SaveSilver

\* one run of transform_all on any input of the two families
Spec == Init /\ [][Next]_vars

InitRuns == InitWith(RunInputs)

NextRuns == Next \/ NewRun

\* several runs of transform_all, one after the other
SpecRuns == InitRuns /\ [][NextRuns]_vars

\* transform_all is called again, on customers with date columns
NewRunDates ==
    /\ pc = "done"
    /\ run < MaxReruns
    /\ bronze' \in DateInputs
    /\ pc' = "start"
    /\ df' = <<>>
    /\ customers_df' = <<>>
    /\ orders_df' = <<>>
    /\ gateLog' = <<>>
    /\ silverAtStart' = silver
    /\ report' = NULL
    /\ run' = run + 1
    /\ outcome' = "running"
    /\ written' = <<>>
    /\ prevRun' = Some([bronze |-> bronze, customers_df |-> customers_df,
                        orders_df |-> orders_df, outcome |-> outcome,
                        report |-> report, gateLog |-> gateLog])
    /\ UNCHANGED <<quarantine, silver, clock, gold>>

InitDates == InitWith(DateInputs)

NextDates == Next \/ NewRunDates

\* several runs of transform_all on customers with date columns
SpecDates == InitDates /\ [][NextDates]_vars

\* rows of data/silver and of the database, for the loader's inputs
SilverCustomer(i, id, email) == Customer(i, Some(id), Some(email))
SilverOrder(i, oid, cid, email, amount, date) ==
    [row |-> i, order_id |-> Some(oid), customer_id |-> Some(cid),
     customer_email |-> Some(email), amount |-> Some(amount), order_date |-> date]

\* the states of data/silver the loader is run on: no files, two snapshots
\* transform_all writes, and two whose orders file holds records without
\* order_date, which validate_orders_before_load expects (lines 134-135)
GoldSnapshots ==
    {NoFiles,
     [customers |-> Some(<<SilverCustomer(1, 1, Str_a_x_com)>>),
      orders |-> Some(<<SilverOrder(1, "T1", 1, Str_a_x_com, 1050, Some("2024-01-15"))>>)],
     [customers |-> Some(<<SilverCustomer(1, 1, Str_b_x_com),
                           SilverCustomer(2, 2, Str_a_x_com)>>),
      orders |-> Some(<<SilverOrder(1, "T1", 1, Str_b_x_com, 1050, Some("2024-01-15")),
                        SilverOrder(2, "T2", 2, Str_a_x_com, 100000, Some("2024-02-03"))>>)],
     [customers |-> Some(<<SilverCustomer(1, 1, Str_a_x_com)>>),
      orders |-> Some(<<SilverOrder(1, "T1", 1, Str_a_x_com, 1050, Some("2024-01-15")),
                        SilverOrder(2, "T2", 1, Str_a_x_com, 100000, NULL)>>)],
     [customers |-> Some(<<SilverCustomer(1, 1, Str_a_x_com)>>),
      orders |-> Some(<<SilverOrder(1, "T1", 1, Str_a_x_com, 1050, NULL)>>)]}

\* what the database holds before the first call of load_all: nothing, the
\* rows of an earlier load of other data, or customers only
GoldDatabases ==
    {NoTables,
     [customers |-> Unindexed(<<SilverCustomer(1, 9, Str_b_x_com)>>),
      orders |-> Unindexed(<<SilverOrder(1, "T9", 9, Str_b_x_com, 500,
                                         Some("2024-01-15"))>>)],
     [customers |-> Unindexed(<<SilverCustomer(1, 1, Str_a_x_com)>>),
      orders |-> <<>>]}

InitGold ==
    /\ bronze = Bronze(<<>>, <<>>, <<>>, <<>>)
    /\ pc = "done"
    /\ df = <<>>
    /\ customers_df = <<>>
    /\ orders_df = <<>>
    /\ gateLog = <<>>
    /\ quarantine = <<>>
    /\ silver \in GoldSnapshots
    /\ silverAtStart = silver
    /\ report = NULL
    /\ clock = 0
    /\ run = 0
    /\ outcome = "done"
    /\ written = <<>>
    /\ prevRun = NULL
    /\ gold \in {[NoLoad EXCEPT !.db = db] : db \in GoldDatabases}

NextGold ==
    \/ GetConnection
    \/ TruncateOrders
    \/ TruncateCustomers
    \/ GoldLoadCustomers
    \/ GoldLoadOrders
    \/ VerifyIntegrity

\* load_all called several times on one state of data/silver
SpecGold == InitGold /\ [][NextGold]_vars

----------------------------------------------------------------------------
(* Properties. *)

\* the gates of gateLog applied to one table, in the order of application
GatesOf(table_name) == RowsAt(gateLog, {k \in 1..Len(gateLog) : gateLog[k].table = table_name})

\* the four customer gates have been applied in this run
CustomerGatesDone == Len(GatesOf("customers")) = 4

NoRowTwice(s) == \A i, j \in 1..Len(s) : s[i].row = s[j].row => i = j

\* C1: at every quality gate of transform_customers and of transform_orders,
\* the records kept plus the records handed to save_rejected_records are the
\* records that entered the gate: the counts add up, no record is on both
\* sides and none is lost.
C1_GateConservation ==
    \A k \in 1..Len(gateLog) :
        LET g == gateLog[k]
        IN  /\ Len(g.accepted) + Len(g.rejected) = Len(g.input)
            /\ NoRowTwice(g.accepted) /\ NoRowTwice(g.rejected)
            /\ Rows(g.accepted) \cap Rows(g.rejected) = {}
            /\ Rows(g.accepted) \cup Rows(g.rejected) = Rows(g.input)

\* a finished run in which all eight gates were applied, and a customer gate
\* and an order gate each rejected some records and kept others
C1_Witness ==
    /\ pc = "done"
    /\ Len(gateLog) = 8
    /\ \A tbl \in {"customers", "orders"} :
          \E k \in 1..Len(gateLog) :
              /\ gateLog[k].table = tbl
              /\ gateLog[k].rejected # <<>>
              /\ gateLog[k].accepted # <<>>

\* C2: every record of the result of transform_customers has a non-null
\* customer_id, a non-null e-mail that matches the pattern, and a customer_id
\* no other record of the result carries.
C2_CleanCustomers ==
    \A i \in 1..Len(customers_df) :
        /\ NotNa(customers_df[i].customer_id)
        /\ NotNa(customers_df[i].email)
        /\ EmailMatches(Val(customers_df[i].email))
        /\ \A j \in 1..Len(customers_df) :
              customers_df[j].customer_id = customers_df[i].customer_id => j = i

\* a result of two customers out of three or more records, returned after
\* the duplicate gate rejected a record
C2_Witness ==
    /\ Len(customers_df) = 2
    /\ Len(bronze.customers) >= 3
    /\ \E k \in 1..Len(gateLog) :
          gateLog[k].reason = "customer_id_duplicate" /\ gateLog[k].rejected # <<>>

OrphanOrders(orders, customers) ==
    {i \in 1..Len(orders) :
        ~ \E j \in 1..Len(customers) : customers[j].customer_id = orders[i].customer_id}

\* C4: in every run every accepted order carries the customer_id of an
\* accepted customer of the same run, so the orphan_orders count of the
\* report, 0, is the true number of orders without an accepted customer.
C4_ReferentialIntegrity ==
    /\ OrphanOrders(orders_df, customers_df) = {}
    /\ report # NULL =>
          Val(report).integrity.orphan_orders =
              Cardinality(OrphanOrders(orders_df, customers_df))

\* a report over a non-empty orders result, in a run whose transactions
\* name a customer that transform_customers rejected and whose joined orders
\* lost a row at the join with the customers
C4_Witness ==
    /\ report # NULL
    /\ orders_df # <<>>
    /\ \E i \in 1..Len(bronze.transactions) :
          /\ NotNa(bronze.transactions[i].customer_id)
          /\ NotNa(bronze.transactions[i].transaction_id)
          /\ \A j \in 1..Len(customers_df) :
                customers_df[j].customer_id # bronze.transactions[i].customer_id
          /\ \E r \in {bronze.reviews_jan, bronze.reviews_feb} :
                \E n \in 1..Len(r) :
                    r[n].transaction_id = bronze.transactions[i].transaction_id

\* s is a string the pattern matches in full, in any letter case, between
\* two runs of whitespace
WellFormedUpToCaseAndSpace(s) ==
    \E lo \in 1..Len(s) : \E hi \in lo..Len(s) :
        /\ FullEmailMatch(SubSeq(s, lo, hi))
        /\ \A k \in (1..(lo - 1)) \cup ((hi + 1)..Len(s)) : s[k] \in Whitespace

\* the table of the example: [{1, "A@X.com"}, {1, "b@x.com"}, {2, "bad"}]
ExampleCustomers ==
    <<Customer(1, Some(1), Some(Str_A_X_com)),
      Customer(2, Some(1), Some(Str_b_x_com)),
      Customer(3, Some(2), Some(Str_bad))>>

\* C5: the e-mail is lower-cased and trimmed before the format gate, and
\* this rejects nothing: a record with a customer_id whose e-mail is
\* well-formed up to letter case and surrounding whitespace passes the
\* format gate; every accepted record carries the lower-cased, trimmed form
\* of its input e-mail; and the example table yields exactly
\* [{1, "a@x.com"}], its second record rejected as customer_id_duplicate and
\* its third as email_invalid_format.
C5_EmailNormalization ==
    CustomerGatesDone =>
        LET loaded == bronze.customers
            format == GatesOf("customers")[3]
            duplicate == GatesOf("customers")[4]
        IN  /\ \A i \in 1..Len(loaded) :
                  ( /\ NotNa(loaded[i].customer_id)
                    /\ NotNa(loaded[i].email)
                    /\ WellFormedUpToCaseAndSpace(Val(loaded[i].email)) )
                  => /\ loaded[i].row \in Rows(format.accepted)
                     /\ loaded[i].row \notin Rows(format.rejected)
            /\ \A i \in 1..Len(duplicate.accepted) :
                  \E j \in 1..Len(loaded) :
                      /\ loaded[j].row = duplicate.accepted[i].row
                      /\ NotNa(loaded[j].email)
                      /\ duplicate.accepted[i].email =
                            Some(StrStrip(StrLower(Val(loaded[j].email))))
                      /\ duplicate.accepted[i].customer_id = loaded[j].customer_id
            /\ loaded = ExampleCustomers =>
                  /\ duplicate.accepted = <<Customer(1, Some(1), Some(Str_a_x_com))>>
                  /\ Rows(duplicate.rejected) = {2}
                  /\ Rows(format.rejected) = {3}
                  /\ GatesOf("customers")[1].rejected = <<>>
                  /\ GatesOf("customers")[2].rejected = <<>>

\* the customer gates have run on a table that holds an e-mail in upper
\* case and one with surrounding whitespace, both kept
C5_Witness ==
    /\ CustomerGatesDone
    /\ \E i, j \in 1..Len(bronze.customers) :
          /\ bronze.customers[i].email = Some(Str_A_X_com)
          /\ bronze.customers[j].email = Some(Str_padded)
          /\ {bronze.customers[i].row, bronze.customers[j].row} \subseteq Rows(customers_df)

\* the table of the example has gone through the customer gates
C5_ExampleReached ==
    /\ CustomerGatesDone
    /\ bronze.customers = ExampleCustomers

CustomerRules == <<"customer_id_null", "email_null", "email_invalid_format",
                   "customer_id_duplicate">>

\* the record fails one of the first three rules, read off the loaded record
FailsBeforeDuplicate(r) ==
    \/ IsNa(r.customer_id)
    \/ IsNa(r.email)
    \/ ~ EmailMatches(StrStrip(StrLower(Val(r.email))))

\* the first rule, in the fixed order, that record i of the loaded table
\* fails ("none" when it fails no rule); only records that pass the first
\* three rules count as an earlier occurrence of a customer_id
FirstFailedRule(loaded, i) ==
    IF IsNa(loaded[i].customer_id) THEN "customer_id_null"
    ELSE IF IsNa(loaded[i].email) THEN "email_null"
    ELSE IF FailsBeforeDuplicate(loaded[i]) THEN "email_invalid_format"
    ELSE IF \E j \in 1..(i - 1) :
               /\ ~ FailsBeforeDuplicate(loaded[j])
               /\ loaded[j].customer_id = loaded[i].customer_id
         THEN "customer_id_duplicate"
    ELSE "none"

\* C6: the customer gates are applied in the order customer_id_null,
\* email_null, email_invalid_format, customer_id_duplicate, each on the
\* records the previous one kept; a rejected record is handed to
\* save_rejected_records once, with the first rule it fails in that order,
\* and a record rejected by an earlier gate is not a first occurrence for the
\* duplicate gate.
C6_GateOrder ==
    LET gates == GatesOf("customers")
        loaded == bronze.customers
    IN  /\ \A k \in 1..Len(gates) : gates[k].reason = CustomerRules[k]
        /\ \A k \in 1..Len(gates) :
              Rows(gates[k].input) =
                  IF k = 1 THEN Rows(loaded) ELSE Rows(gates[k - 1].accepted)
        /\ CustomerGatesDone =>
              \A i \in 1..Len(loaded) :
                  LET hits == {k \in 1..4 : loaded[i].row \in Rows(gates[k].rejected)}
                  IN  IF FirstFailedRule(loaded, i) = "none"
                      THEN hits = {} /\ loaded[i].row \in Rows(gates[4].accepted)
                      ELSE /\ Cardinality(hits) = 1
                           /\ \A k \in hits : CustomerRules[k] = FirstFailedRule(loaded, i)
                           /\ loaded[i].row \notin Rows(gates[4].accepted)

\* the customer gates have run on a table in which a record rejected for
\* its e-mail precedes a kept record of the same customer_id, and a record
\* fails two rules
C6_Witness ==
    /\ CustomerGatesDone
    /\ \E i, j \in 1..Len(bronze.customers) :
          /\ i < j
          /\ bronze.customers[i].customer_id = bronze.customers[j].customer_id
          /\ FirstFailedRule(bronze.customers, i) = "email_invalid_format"
          /\ bronze.customers[j].row \in Rows(customers_df)
    /\ \E i \in 1..Len(bronze.customers) :
          /\ IsNa(bronze.customers[i].customer_id)
          /\ IsNa(bronze.customers[i].email)

\* the gates of gateLog that de-duplicate, with the key of each
DuplicateGates ==
    {k \in 1..Len(gateLog) :
        gateLog[k].reason \in {"customer_id_duplicate", "order_id_duplicate"}}
DuplicateKey(g) == IF g.reason = "customer_id_duplicate" THEN "customer_id" ELSE "order_id"

\* C7: de-duplication keeps the first occurrence: of the records that enter
\* the duplicate gate of transform_customers (key customer_id) or of
\* transform_orders (key order_id), the one kept for each key is the earliest
\* in the gate's input, the others of its group are exactly the rejected
\* ones, and a record whose key occurs once is kept.
C7_KeepFirst ==
    \A k \in DuplicateGates :
        LET g == gateLog[k]
            key == DuplicateKey(g)
            first(i) == \A j \in 1..(i - 1) : g.input[j][key] # g.input[i][key]
        IN  /\ g.accepted = RowsAt(g.input, {i \in 1..Len(g.input) : first(i)})
            /\ g.rejected = RowsAt(g.input, {i \in 1..Len(g.input) : ~ first(i)})

\* a run in which both duplicate gates rejected a record
C7_Witness ==
    \A reason \in {"customer_id_duplicate", "order_id_duplicate"} :
        \E k \in 1..Len(gateLog) :
            /\ gateLog[k].reason = reason
            /\ gateLog[k].rejected # <<>>
            /\ gateLog[k].accepted # <<>>

\* C8: within one run no call of save_rejected_records replaces or removes
\* what an earlier call of the run wrote, so that at the end of the run the
\* store holds, for every gate that rejected a record, an artifact with
\* exactly the records that gate rejected, under its table and reason.
C8_QuarantineKeepsEveryGate ==
    pc = "done" =>
        \A k \in 1..Len(gateLog) :
            gateLog[k].rejected # <<>> =>
                \E f \in DOMAIN quarantine :
                    /\ f[1] = gateLog[k].table
                    /\ quarantine[f].run = run
                    /\ quarantine[f].rejection_reason = gateLog[k].reason
                    /\ quarantine[f].records = gateLog[k].rejected

\* C9: a run never removes or replaces a quarantine artifact that an
\* earlier run wrote.
C9_QuarantineGrowsAcrossRuns ==
    [][\A f \in DOMAIN quarantine :
          quarantine[f].run < run =>
              f \in DOMAIN quarantine' /\ quarantine'[f] = quarantine[f]]_vars

\* the records of a stored dataset (none when the file does not exist)
StoredRecords(file) == IF file = NULL THEN <<>> ELSE Val(file)

AsSet(s) == {s[i] : i \in 1..Len(s)}

\* what run r has in the rejected-records directory, file names and
\* timestamps left out: <<table, reason, records>>
ArtifactsOf(r) ==
    {<<f[1], quarantine[f].rejection_reason, quarantine[f].records>> :
        f \in {g \in DOMAIN quarantine : quarantine[g].run = r}}

\* a run has ended that read the bronze tables the run before it read
SameInputsTwice ==
    /\ pc = "done"
    /\ prevRun # NULL
    /\ Val(prevRun).bronze = bronze

\* C11: two runs of transform_all on the same bronze tables accept the same
\* customers and the same orders (as sets, and in number), and leave
\* quarantine artifacts with the same records under the same reasons, only
\* the timestamps and file names differing.
C11_Idempotence ==
    SameInputsTwice =>
        /\ AsSet(customers_df) = AsSet(Val(prevRun).customers_df)
        /\ AsSet(orders_df) = AsSet(Val(prevRun).orders_df)
        /\ Len(customers_df) = Len(Val(prevRun).customers_df)
        /\ Len(orders_df) = Len(Val(prevRun).orders_df)
        /\ ArtifactsOf(run) = ArtifactsOf(run - 1)

\* the part of C11 about the accepted records
C11_AcceptedIdempotent ==
    SameInputsTwice =>
        /\ customers_df = Val(prevRun).customers_df
        /\ orders_df = Val(prevRun).orders_df
        /\ outcome = Val(prevRun).outcome

\* the customers table lacks customer_id or email
CustomerColumnMissing ==
    ~ HasColumn("customers", "customer_id") \/ ~ HasColumn("customers", "email")

\* C12: when the customers table lacks the customer_id or the email column,
\* transform_customers returns an empty result without applying a gate and
\* without a call of save_rejected_records: the run ends at once, no
\* customer gate is logged and the run has no artifact in the quarantine
\* store.
C12_MissingColumnAborts ==
    (CustomerColumnMissing /\ pc # "start") =>
        /\ pc = "done"
        /\ outcome = "customers_empty"
        /\ customers_df = <<>>
        /\ gateLog = <<>>
        /\ \A f \in DOMAIN quarantine : quarantine[f].run # run

\* a run has ended on a customers table without the email column, one of
\* whose records has no customer_id and would not pass the first gate
C12_Witness ==
    /\ pc = "done"
    /\ ~ HasColumn("customers", "email")
    /\ HasColumn("customers", "customer_id")
    /\ \E i \in 1..Len(bronze.customers) : IsNa(bronze.customers[i].customer_id)

Sources == {"customers", "reviews_jan", "reviews_feb", "transactions"}

\* the columns the two stages read by name
RequiredColumns ==
    {<<"customers", "customer_id">>, <<"customers", "email">>,
     <<"reviews_jan", "transaction_id">>, <<"reviews_feb", "transaction_id">>,
     <<"transactions", "transaction_id">>, <<"transactions", "customer_id">>,
     <<"transactions", "amount">>, <<"transactions", "payment_date">>}

\* a source that cannot be read or has no records, a required column that a
\* source lacks, or no review with the transaction_id of a transaction
FatalCondition ==
    \/ \E tn \in Sources : bronze[tn] = <<>>
    \/ RequiredColumns \cap bronze.absent # {}
    \/ JoinedOrders = <<>>

\* C13: a run of transform_all with a fatal condition (unreadable source,
\* required column absent from a source, empty review-transaction join)
\* writes neither the customers nor the orders dataset, and no run writes
\* one of the two without the other.
C13_NoPartialOutput ==
    /\ FatalCondition => (written = <<>> /\ silver = silverAtStart)
    /\ pc = "done" => (("customers" \in AsSet(written)) <=> ("orders" \in AsSet(written)))

\* C13 without the case the code lets through: the fatal conditions as the
\* code meets them (the concatenated reviews lack transaction_id only when
\* both periods do), and the two datasets written together or not at all
C13_FatalAsTheCodeMeetsIt ==
    /\ ( \/ \E tn \in Sources : bronze[tn] = <<>>
         \/ (RequiredColumns \ {<<"reviews_jan", "transaction_id">>,
                                <<"reviews_feb", "transaction_id">>})
                \cap bronze.absent # {}
         \/ ~ ReviewsHaveTransactionId
         \/ JoinedOrders = <<>> )
       => (written = <<>> /\ silver = silverAtStart)
    /\ pc = "done" => written \in {<<>>, <<"customers", "orders">>}

\* C14: rule failures are never fatal: a run whose sources all have records
\* and their required columns, and whose review-transaction join is not
\* empty, computes the quality report and writes both datasets with the
\* records that passed the gates, however many records the gates rejected.
C14_RuleFailuresNotFatal ==
    (pc = "done" /\ ~ FatalCondition) =>
        /\ outcome = "success"
        /\ report # NULL
        /\ written = <<"customers", "orders">>
        /\ silver = [customers |-> Some(customers_df), orders |-> Some(orders_df)]

\* the steps of transform_orders
OrderSteps == {"load_orders", "order_customer_id_null", "join_customers",
               "amount_invalid", "order_date_null", "order_id_duplicate"}

\* transform_orders has been called in this run
OrdersStarted == pc \in OrderSteps \/ GatesOf("orders") # <<>> \/ orders_df # <<>>

\* the values of a column of a frame
ColumnValues(d, col) == {d[i][col] : i \in 1..Len(d)}

\* C15: the stages run in dependency order: transform_orders starts only
\* after transform_customers has returned a non-empty result (the records
\* its last gate kept) and joins against exactly that result; the quality
\* report is computed only after both stages have returned non-empty
\* results, and on them; each dataset is written at most once in a run, and
\* only after the report.
C15_StageOrder ==
    /\ OrdersStarted =>
          /\ CustomerGatesDone
          /\ customers_df # <<>>
          /\ customers_df = GatesOf("customers")[4].accepted
    /\ pc \in {"amount_invalid", "order_date_null", "order_id_duplicate"} =>
          /\ \A i \in 1..Len(df) :
                \E j \in 1..Len(customers_df) :
                    /\ customers_df[j].customer_id = df[i].customer_id
                    /\ customers_df[j].email = df[i].customer_email
          /\ GatesOf("orders")[1].reason = "customer_id_null"
          /\ pc = "amount_invalid" =>
                ColumnValues(df, "customer_id") =
                    ColumnValues(GatesOf("orders")[1].accepted, "customer_id")
                        \cap ColumnValues(customers_df, "customer_id")
    /\ report # NULL =>
          /\ pc \in {"save", "done"}
          /\ customers_df # <<>>
          /\ orders_df # <<>>
          /\ Len(GatesOf("orders")) = 4
          /\ orders_df = GatesOf("orders")[4].accepted
          /\ Val(report).customers.total_records = Len(customers_df)
          /\ Val(report).orders.total_records = Len(orders_df)
    /\ written # <<>> =>
          /\ report # NULL
          /\ written = <<"customers", "orders">>

\* a run has gone through all stages and written both datasets, after
\* gates of both stages rejected records
C15_Witness ==
    /\ pc = "done"
    /\ written = <<"customers", "orders">>
    /\ \A tbl \in {"customers", "orders"} :
          \E k \in 1..Len(gateLog) :
              gateLog[k].table = tbl /\ gateLog[k].rejected # <<>>

\* the records of the bronze table tn without a transaction_id
NullTransactionIds(tn) ==
    {bronze[tn][i] : i \in {j \in 1..Len(bronze[tn]) : IsNa(bronze[tn][j].transaction_id)}}

\* the records the quarantine store holds under a reason
QuarantinedAs(reason) ==
    UNION {AsSet(quarantine[f].records) :
              f \in {g \in DOMAIN quarantine : quarantine[g].rejection_reason = reason}}

\* C16: a review or a transaction without transaction_id is rejected before
\* the join as a gate rejection: no joined row comes from it, and once
\* transform_orders has joined, the quarantine store holds it under the
\* reason transaction_id_null, for reviews and for transactions alike.
C16_NullTransactionIdQuarantined ==
    GatesOf("orders") # <<>> =>
        /\ \A i \in 1..Len(GatesOf("orders")[1].input) :
              NotNa(GatesOf("orders")[1].input[i].transaction_id)
        /\ \A tn \in {"reviews_jan", "reviews_feb", "transactions"} :
              \A r \in NullTransactionIds(tn) :
                  \E q \in QuarantinedAs("transaction_id_null") :
                      q.transaction_id = r.transaction_id

\* the part of C16 the code keeps: no joined row without transaction_id,
\* and nothing in the store under transaction_id_null
C16_DroppedWithoutTrace ==
    /\ QuarantinedAs("transaction_id_null") = {}
    /\ GatesOf("orders") # <<>> =>
          \A i \in 1..Len(GatesOf("orders")[1].input) :
              NotNa(GatesOf("orders")[1].input[i].transaction_id)

\* the order candidates that reached the order_date gate of this run with
\* a null order_date; they have passed the customer join and the amount gate
NullDateCandidates ==
    IF Len(GatesOf("orders")) < 3 THEN {}
    ELSE {r \in AsSet(GatesOf("orders")[3].input) : IsNa(r.order_date)}

\* C17: an order candidate that reaches the order_date gate with a null
\* order_date, its other fields valid, is not among the accepted orders
\* and, when the run has ended, is in the quarantine store under the reason
\* order_date_null.
C17_NullOrderDateQuarantined ==
    pc = "done" =>
        \A r \in NullDateCandidates :
            /\ r.row \notin Rows(orders_df)
            /\ \E f \in DOMAIN quarantine :
                  /\ quarantine[f].run = run
                  /\ quarantine[f].rejection_reason = "order_date_null"
                  /\ r \in AsSet(quarantine[f].records)

\* the part of C17 the code keeps: the candidate is not accepted and is
\* handed to save_rejected_records with the reason order_date_null
C17_NullOrderDateRejected ==
    \A r \in NullDateCandidates :
        /\ r.row \notin Rows(orders_df)
        /\ r \in AsSet(GatesOf("orders")[3].rejected)
        /\ GatesOf("orders")[3].reason = "order_date_null"

\* the transaction id of an order record, before or after the projection
OrderKey(r) == IF "order_id" \in DOMAIN r THEN r.order_id ELSE r.transaction_id

\* every order record the run has accepted, has in the quarantine store or
\* has handed to save_rejected_records
OrderRecordsKept ==
    AsSet(orders_df)
    \cup UNION {AsSet(quarantine[f].records) :
                   f \in {g \in DOMAIN quarantine : g[1] = "orders"}}
    \cup UNION {AsSet(gateLog[k].rejected) :
                   k \in {j \in 1..Len(gateLog) : gateLog[j].table = "orders"}}

\* the transaction ids of the reviews that no transaction carries
ReviewMisses ==
    (ColumnValues(bronze.reviews_jan, "transaction_id")
         \cup ColumnValues(bronze.reviews_feb, "transaction_id"))
    \ (ColumnValues(bronze.transactions, "transaction_id") \cup {NULL})

\* the transaction ids of the transactions that no review carries
TransactionMisses ==
    ColumnValues(bronze.transactions, "transaction_id")
    \ (ColumnValues(bronze.reviews_jan, "transaction_id")
           \cup ColumnValues(bronze.reviews_feb, "transaction_id") \cup {NULL})

\* the customer ids of the joined orders that entered the customer join and
\* are not those of an accepted customer
CustomerMisses ==
    IF pc \in {"amount_invalid", "order_date_null", "order_id_duplicate",
               "validate", "save", "done"} /\ GatesOf("orders") # <<>>
    THEN ColumnValues(GatesOf("orders")[1].accepted, "customer_id")
             \ ColumnValues(customers_df, "customer_id")
    ELSE {}

\* C18: join misses are dropped and not quarantined: a review whose
\* transaction_id no transaction has, a transaction whose transaction_id no
\* review has, and a joined order whose customer_id is not that of an
\* accepted customer leave no record among the accepted orders and none in
\* the quarantine store, under any reason.
C18_JoinMissesDropped ==
    \A r \in OrderRecordsKept :
        /\ OrderKey(r) \notin ReviewMisses
        /\ OrderKey(r) \notin TransactionMisses
        /\ r.customer_id \notin CustomerMisses

\* a run has ended with an accepted order after a review, a transaction and
\* a joined order were each dropped at a join
C18_Witness ==
    /\ pc = "done"
    /\ orders_df # <<>>
    /\ ReviewMisses # {}
    /\ TransactionMisses # {}
    /\ CustomerMisses # {}

\* the amounts of the model's inputs as decimals, in hundredths (NULL: not
\* a decimal once '$' and ',' are taken out)
ExpectedAmount(x) ==
    IF IsNa(x) THEN NULL
    ELSE CASE Val(x) = Str_10_50 -> Some(1050)
           [] Val(x) = Str_1_000 -> Some(100000)
           [] Val(x) = Str_1_234_5 -> Some(123450)
           [] Val(x) = Str_minus_5 -> Some(0 - 500)
           [] Val(x) = Str_0 -> Some(0)
           [] OTHER -> NULL

\* the tables of the example: one transaction T1, of amount "$10.50" and
\* with a date, one review of T1, the customer of the transaction accepted,
\* and no source empty
AmountExample ==
    /\ \A tn \in Sources : bronze[tn] # <<>>
    /\ Cardinality({i \in 1..Len(bronze.transactions) :
                       bronze.transactions[i].transaction_id = Some("T1")}) = 1
    /\ \E i \in 1..Len(bronze.transactions) :
          /\ bronze.transactions[i].transaction_id = Some("T1")
          /\ bronze.transactions[i].amount = Some(Str_10_50)
          /\ bronze.transactions[i].payment_date \in {Some(d) : d \in ParseableDates}
          /\ bronze.transactions[i].customer_id \in ColumnValues(customers_df, "customer_id") \ {NULL}
    /\ Cardinality({i \in 1..Len(bronze.reviews_jan) :
                       bronze.reviews_jan[i].transaction_id = Some("T1")})
       + Cardinality({i \in 1..Len(bronze.reviews_feb) :
                         bronze.reviews_feb[i].transaction_id = Some("T1")}) = 1

C19_SeparatorsReached ==
    /\ pc = "done"
    /\ \E i \in 1..Len(orders_df) : orders_df[i].amount = Some(123450)

\* the accepted customers that an accepted order refers to
CustomersReferenced ==
    {i \in 1..Len(customers_df) :
        customers_df[i].customer_id \in ColumnValues(orders_df, "customer_id")}

\* C20: the integrity metrics of the report are the set difference between
\* the accepted customers and those with orders: customers_with_orders is
\* the number of accepted customers that at least one accepted order refers
\* to, customers_without_orders the number of those no order refers to, and
\* the two add up to the number of accepted customers.
C20_IntegrityMetrics ==
    report # NULL =>
        LET integrity == Val(report).integrity
        IN  /\ integrity.customers_with_orders = Cardinality(CustomersReferenced)
            /\ integrity.customers_without_orders =
                   Len(customers_df) - Cardinality(CustomersReferenced)
            /\ integrity.customers_with_orders + integrity.customers_without_orders =
                   Len(customers_df)

\* the part of C20 the code keeps: the two metrics add up to the number of
\* accepted customers, and they are the set difference whenever no two
\* accepted customers have the same e-mail
C20_MetricsUpToSharedEmail ==
    report # NULL =>
        LET integrity == Val(report).integrity
        IN  /\ integrity.customers_with_orders + integrity.customers_without_orders =
                   Len(customers_df)
            /\ NUnique(customers_df, "email") = Len(customers_df) =>
                  /\ integrity.customers_with_orders = Cardinality(CustomersReferenced)
                  /\ integrity.customers_without_orders =
                         Len(customers_df) - Cardinality(CustomersReferenced)

\* validate_data_quality was called in this run and in the run before it on
\* the same customers and the same orders
SameDatasetsValidatedTwice ==
    /\ report # NULL
    /\ prevRun # NULL
    /\ Val(prevRun).report # NULL
    /\ Val(prevRun).customers_df = customers_df
    /\ Val(prevRun).orders_df = orders_df

\* C21: validate_data_quality is a function of the two datasets alone: two
\* calls on the same customers and the same orders return equal reports,
\* whatever else differs between the calls.
C21_ReportIsFunctionOfDatasets ==
    SameDatasetsValidatedTwice => report = Val(prevRun).report

\* the part of C21 the code keeps: the metrics of the two reports are equal
C21_MetricsAreFunctionOfDatasets ==
    SameDatasetsValidatedTwice =>
        /\ Val(report).customers = Val(Val(prevRun).report).customers
        /\ Val(report).orders = Val(Val(prevRun).report).orders
        /\ Val(report).integrity = Val(Val(prevRun).report).integrity

\* two calls of load_all that both reached the database, the second finished
GoldLoadedTwice ==
    /\ gold.pc = "done"
    /\ gold.connected
    /\ gold.prev # NULL
    /\ Val(gold.prev).connected

NoRecordTwice(table) ==
    \A i, j \in 1..Len(table) : i # j => table[i] # table[j]

Statements(kind) == {i \in 1..Len(gold.log) : gold.log[i][1] = kind}

WithoutDates(d) ==
    [i \in 1..Len(d) |->
        [f \in DOMAIN d[i] |-> IF f \in date_columns THEN NULL ELSE d[i][f]]]

\* this run and the one before read customers that differ in nothing but
\* their date cells, and transform_customers is over in both
SameCustomersButDates ==
    /\ prevRun # NULL
    /\ WithoutDates(Val(prevRun).bronze.customers) = WithoutDates(bronze.customers)
    /\ pc \in {"load_orders", "done"}
    /\ Len(GatesOf("customers")) = 4

\* what the customer gates of a run rejected, gate by gate, date cells aside
RejectedButDates(log) ==
    LET gates == RowsAt(log, {k \in 1..Len(log) : log[k].table = "customers"})
    IN  [k \in 1..Len(gates) |-> <<gates[k].reason, WithoutDates(gates[k].rejected)>>]

\* C23: a missing or unreadable registration_date or birth_date is null in
\* the accepted record and rejects no record: two runs on customers that
\* differ only in those two fields accept the same customer_ids and
\* quarantine the same records for the same reasons.
C23_DatesSoftFail ==
    /\ \A i \in 1..Len(customers_df) :
          \A f \in DOMAIN customers_df[i] \cap date_columns :
              \/ IsNa(customers_df[i][f])
              \/ Val(customers_df[i][f]) \in ParseableDates
    /\ SameCustomersButDates =>
          /\ ColumnValues(customers_df, "customer_id") =
                ColumnValues(Val(prevRun).customers_df, "customer_id")
          /\ RejectedButDates(gateLog) = RejectedButDates(Val(prevRun).gateLog)

\* no birth date of either run carries a UTC offset
NoTzAwareBirthDate ==
    /\ prevRun # NULL
    /\ \A d \in {bronze.customers, Val(prevRun).bronze.customers} :
          \A i \in 1..Len(d) :
              IsNa(d[i].birth_date) \/ Val(d[i].birth_date) \notin TzAwareDates

\* the same, for runs whose birth dates carry no UTC offset
C23_SoftFailWithoutOffsets ==
    (SameCustomersButDates /\ NoTzAwareBirthDate) =>
          /\ ColumnValues(customers_df, "customer_id") =
                ColumnValues(Val(prevRun).customers_df, "customer_id")
          /\ RejectedButDates(gateLog) = RejectedButDates(Val(prevRun).gateLog)
          /\ \A i \in 1..Len(customers_df) :
                \E j \in 1..Len(bronze.customers) :
                    /\ bronze.customers[j].row = customers_df[i].row
                    /\ \A f \in date_columns :
                          customers_df[i][f] = CoerceDate(bronze.customers[j][f])

\* a run that accepted a customer whose unreadable date became null, after a
\* run on the same customers with other dates
C23_SoftFailReached ==
    /\ SameCustomersButDates /\ NoTzAwareBirthDate
    /\ bronze.customers # Val(prevRun).bronze.customers
    /\ \E i \in 1..Len(customers_df) :
          \E j \in 1..Len(bronze.customers) :
              /\ bronze.customers[j].row = customers_df[i].row
              /\ bronze.customers[j].birth_date = Some("unknown")
              /\ IsNa(customers_df[i].birth_date)
    /\ \E k \in 1..4 : GatesOf("customers")[k].rejected # <<>>

\* the columns the sources of the joined table carry: those of the three
\* order sources, and customer_email of the customer lookup
SourceColumns ==
    UNION {{f \in ColumnsOf(bronze[tn]) \ {"row"} : <<tn, f>> \notin bronze.absent} :
              tn \in {"reviews_jan", "reviews_feb", "transactions"}}
        \cup {"customer_email"}

\* the images under the mapping of the mapped columns the sources carry
MappedImages ==
    {IF k = "transaction_id" THEN "order_id"
     ELSE IF k = "payment_date" THEN "order_date" ELSE k :
        k \in SourceColumns \cap
              {"transaction_id", "customer_id", "customer_email", "amount", "currency",
               "payment_date", "status", "payment_method", "rating", "review_date"}}

\* the frame of transform_orders after its projection
Projected == IF pc \in {"amount_invalid", "order_date_null", "order_id_duplicate"}
             THEN df ELSE orders_df

\* every source has the columns the joins are made on
KeyColumnsPresent ==
    /\ HasColumn("customers", "customer_id") /\ HasColumn("customers", "email")
    /\ HasColumn("reviews_jan", "transaction_id")
    /\ HasColumn("reviews_feb", "transaction_id")
    /\ HasColumn("transactions", "transaction_id")
    /\ HasColumn("transactions", "customer_id")

\* the columns of the result of the projection are the images of the mapped
\* columns of the sources
C24_ProjectionColumns ==
    \A i \in 1..Len(Projected) : DOMAIN Projected[i] \ {"row"} = MappedImages

\* C24: the columns of the transform_orders result are exactly the images,
\* under the mapping (transaction_id to order_id, payment_date to order_date,
\* the rest unchanged), of the mapped columns the joined table has, and a
\* source without a mapped column that is no join key does not make the
\* stage fail.
C24_PartialSchemaTolerated ==
    /\ C24_ProjectionColumns
    /\ KeyColumnsPresent => outcome # "KeyError"

\* a projected frame with an optional column of each source and without the
\* amount column
C24_ProjectionReached ==
    /\ pc = "amount_invalid"
    /\ df # <<>>
    /\ KeyColumnsPresent
    /\ DOMAIN df[1] = {"row", "order_id", "customer_id", "customer_email", "currency",
                       "order_date", "rating"}

\* one of the two review periods loaded with no record
ReviewPeriodEmpty == bronze.reviews_jan = <<>> \/ bronze.reviews_feb = <<>>

\* C25: when reviews_jan or reviews_feb loads with no record, transform_orders
\* returns an empty result before any join and any quarantine write, and
\* transform_all writes no dataset, even when the other period has reviews
\* that match transactions of accepted customers.
C25_EmptyReviewPeriodStops ==
    ReviewPeriodEmpty =>
        /\ pc \in {"start", "customer_id_null", "email_null", "email_normalize",
                   "email_invalid_format", "customer_id_duplicate", "load_orders", "done"}
        /\ GatesOf("orders") = <<>>
        /\ \A f \in DOMAIN quarantine : f[1] # "orders"
        /\ orders_df = <<>>
        /\ report = NULL
        /\ written = <<>>
        /\ silver = silverAtStart
        /\ pc = "done" => outcome \in {"customers_empty", "orders_empty"}

\* a finished run without reviews of February, whose review of January
\* matches a payable transaction of an accepted customer
C25_Witness ==
    /\ pc = "done"
    /\ outcome = "orders_empty"
    /\ bronze.reviews_feb = <<>>
    /\ \E i \in 1..Len(bronze.reviews_jan) :
          \E j \in 1..Len(bronze.transactions) :
              \E k \in 1..Len(customers_df) :
                  /\ NotNa(bronze.reviews_jan[i].transaction_id)
                  /\ bronze.transactions[j].transaction_id =
                        bronze.reviews_jan[i].transaction_id
                  /\ bronze.transactions[j].customer_id = customers_df[k].customer_id
                  /\ bronze.transactions[j].amount = Some(Str_10_50)
                  /\ bronze.transactions[j].payment_date = Some("2024-01-15")

====
